---- MODULE Spec2Model ----
(***************************************************************************)
(* Model of pallet-multitoken (src/src/lib.rs): an ERC1155-style ledger.   *)
(* Storage items are the variables, every extrinsic of #[pallet::call] is  *)
(* one action, and `update` is the recursive operator UpdateLoop/Update.   *)
(***************************************************************************)
EXTENDS Integers, Sequences, FiniteSets, TLC

\* ------------------------------------------------------------------ bounds
NumAccounts == 2
MaxCollections == 2
MaxAmount == 1
MaxLen == 2

\* ------------------------------------------------------------------ types
\* Option<T>: None is the empty tuple, Some(x) the one-element tuple
None == <<>>
Some(x) == <<x>>
Unwrap(o) == o[1]

AccountId == 1..NumAccounts
CollectionId == 0..(MaxCollections - 1)
Amount == 0..MaxAmount

\* frame_system origins: a signed account or the root origin
Signed(a) == <<"Signed", a>>
Root == <<"Root">>
Origin == {Signed(a) : a \in AccountId} \cup {Root}

SeqsUpTo(S, n) == UNION {[1..k -> S] : k \in 0..n}

\* the Next trait: the successor of a collection id
Next_id(id) == id + 1

VARIABLES
    NextCollectionId,   \* StorageValue, ValueQuery
    Collections,        \* CountedStorageMap id -> owner, OptionQuery
    Balances,           \* StorageDoubleMap (id, account) -> amount, OptionQuery
    OperatorApprovals,  \* StorageDoubleMap (owner, operator) -> bool, ValueQuery
    events,             \* events deposited by the extrinsic being applied
    call,               \* the extrinsic that was dispatched, NoCall when idle
    result,             \* its DispatchResult
    pre,                \* storage at the moment the extrinsic was dispatched
    returned,           \* the value returned by a query, None for extrinsics
    lastApproval,       \* history: last approved flag successfully set per pair
    numCreated          \* history: number of successful create calls

storage == <<NextCollectionId, Collections, Balances, OperatorApprovals>>
vars == <<NextCollectionId, Collections, Balances, OperatorApprovals,
          events, call, result, pre, returned, lastApproval, numCreated>>

NoCall == [name |-> "none"]
NoPre == [taken |-> FALSE]

Snapshot ==
    [taken |-> TRUE,
     NextCollectionId |-> NextCollectionId,
     Collections |-> Collections,
     Balances |-> Balances,
     OperatorApprovals |-> OperatorApprovals]

Init ==
    /\ NextCollectionId = 0
    /\ Collections = [id \in CollectionId |-> None]
    /\ Balances = [id \in CollectionId |-> [a \in AccountId |-> None]]
    /\ OperatorApprovals = [a \in AccountId |-> [b \in AccountId |-> None]]
    /\ events = <<>>
    /\ call = NoCall
    /\ result = "None"
    /\ pre = NoPre
    /\ returned = None
    /\ lastApproval = [a \in AccountId |-> [b \in AccountId |-> None]]
    /\ numCreated = 0

\* ------------------------------------------------------------ pure helpers
\* ensure_signed / ensure_root: Some(account) / TRUE on success
ensure_signed(origin) == IF origin[1] = "Signed" THEN Some(origin[2]) ELSE None
ensure_root(origin) == origin = Root

is_approved_for_all_missing_true(appr, account, operator) ==
    IF appr[account][operator] = None THEN TRUE ELSE Unwrap(appr[account][operator])

\* OperatorApprovals is a ValueQuery map: a missing entry reads as false
is_approved_for_all_in(appr, account, operator) ==
    IF appr[account][operator] = None THEN FALSE ELSE Unwrap(appr[account][operator])

is_approved_for_all(account, operator) ==
    is_approved_for_all_in(OperatorApprovals, account, operator)

\* Balances is an OptionQuery map: balance_of unwraps to the default amount
balance_of_in(bal, account, id) ==
    IF bal[id][account] = None THEN 0 ELSE Unwrap(bal[id][account])

balance_of(account, id) == balance_of_in(Balances, account, id)

Insert(bal, id, account, amount) ==
    [bal EXCEPT ![id] = [@ EXCEPT ![account] = Some(amount)]]

DebitMissingAsZero(bal, from, id, amount) ==
    IF from = None THEN [err |-> "Ok", bal |-> bal]
    ELSE LET from_balance == balance_of_in(bal, Unwrap(from), id)
         IN  IF ~(from_balance >= amount)
             THEN [err |-> "InsufficientBalance", bal |-> bal]
             ELSE [err |-> "Ok",
                   bal |-> Insert(bal, id, Unwrap(from), from_balance - amount)]

DebitStoresAmount(bal, from, id, amount) ==
    IF from = None THEN [err |-> "Ok", bal |-> bal]
    ELSE IF bal[id][Unwrap(from)] = None
         THEN [err |-> "CollectionDoesNotExist", bal |-> bal]
    ELSE IF ~(Unwrap(bal[id][Unwrap(from)]) >= amount)
         THEN [err |-> "InsufficientBalance", bal |-> bal]
    ELSE [err |-> "Ok", bal |-> Insert(bal, id, Unwrap(from), amount)]

DebitNoWrite(bal, from, id, amount) ==
    IF from = None THEN [err |-> "Ok", bal |-> bal]
    ELSE IF bal[id][Unwrap(from)] = None
         THEN [err |-> "CollectionDoesNotExist", bal |-> bal]
    ELSE IF ~(Unwrap(bal[id][Unwrap(from)]) >= amount)
         THEN [err |-> "InsufficientBalance", bal |-> bal]
    ELSE [err |-> "Ok", bal |-> bal]

\* one iteration of the loop of `update`: the debit of `from`
Debit(bal, from, id, amount) ==
    IF from = None THEN [err |-> "Ok", bal |-> bal]
    ELSE IF bal[id][Unwrap(from)] = None
         THEN [err |-> "CollectionDoesNotExist", bal |-> bal]
    ELSE LET from_balance == Unwrap(bal[id][Unwrap(from)])
         IN  IF ~(from_balance >= amount)
             THEN [err |-> "InsufficientBalance", bal |-> bal]
             ELSE [err |-> "Ok",
                   bal |-> Insert(bal, id, Unwrap(from), from_balance - amount)]

CreditAdditive(bal, to, id, amount) ==
    IF to = None THEN bal
    ELSE Insert(bal, id, Unwrap(to), balance_of_in(bal, Unwrap(to), id) + amount)

\* one iteration of the loop of `update`: the credit of `to`
Credit(bal, to, id, amount) ==
    IF to = None THEN bal ELSE Insert(bal, id, Unwrap(to), amount)

RECURSIVE UpdateLoopFirstOnly(_, _, _, _, _, _)
UpdateLoopFirstOnly(bal, from, to, ids, amounts, i) ==
    IF i > Len(ids) THEN [err |-> "Ok", bal |-> bal]
    ELSE LET d == Debit(bal, from, ids[i], amounts[i])
         IN  IF d.err # "Ok" THEN d
             ELSE [err |-> "Ok", bal |-> Credit(d.bal, to, ids[i], amounts[i])]

\* the loop of `update`, from index i on
RECURSIVE UpdateLoop(_, _, _, _, _, _)
UpdateLoop(bal, from, to, ids, amounts, i) ==
    IF i > Len(ids) THEN [err |-> "Ok", bal |-> bal]
    ELSE LET d == Debit(bal, from, ids[i], amounts[i])
         IN  IF d.err # "Ok" THEN d
             ELSE UpdateLoop(Credit(d.bal, to, ids[i], amounts[i]),
                             from, to, ids, amounts, i + 1)

TransferEventAlwaysBatch(operator, from, to, ids, amounts) ==
    [kind |-> "TransferBatch", operator |-> operator, from |-> from,
     to |-> to, ids |-> ids, values |-> amounts]

\* the event deposited at the end of `update`
TransferEvent(operator, from, to, ids, amounts) ==
    IF Len(ids) = 1
    THEN [kind |-> "TransferSingle", operator |-> operator, from |-> from,
          to |-> to, id |-> ids[1], value |-> amounts[1]]
    ELSE [kind |-> "TransferBatch", operator |-> operator, from |-> from,
          to |-> to, ids |-> ids, values |-> amounts]

\* fn update: the result, the balances written and the events deposited
Update(bal, operator, from, to, ids, amounts) ==
    IF Len(ids) # Len(amounts)
    THEN [err |-> "InvalidArrayLength", bal |-> bal, events |-> <<>>]
    ELSE LET r == UpdateLoop(bal, from, to, ids, amounts, 1)
         IN  IF r.err # "Ok" THEN [err |-> r.err, bal |-> r.bal, events |-> <<>>]
             ELSE [err |-> "Ok", bal |-> r.bal,
                   events |-> <<TransferEvent(operator, from, to, ids, amounts)>>]

ApprovalInsertBothWays(appr, owner, operator, approved) ==
    [a \in AccountId |-> [b \in AccountId |->
        IF (a = owner /\ b = operator) \/ (a = operator /\ b = owner)
        THEN Some(approved) ELSE appr[a][b]]]

\* set_approval_for_all: the OperatorApprovals::insert
ApprovalInsert(appr, owner, operator, approved) ==
    [appr EXCEPT ![owner] = [@ EXCEPT ![operator] = Some(approved)]]

\* Vec::with_capacity(len): an empty vector, whatever the capacity
VecWithCapacity(len) == <<>>

\* the loop of balance_of_batch: balances[i] = ... indexes the vector, and
\* indexing past its length panics
RECURSIVE BalanceOfBatchLoop(_, _, _, _, _)
BalanceOfBatchLoop(bal, accounts, ids, balances, i) ==
    IF i > Len(accounts) THEN [panic |-> FALSE, value |-> Some(balances)]
    ELSE IF ~(i <= Len(balances)) THEN [panic |-> TRUE, value |-> None]
    ELSE BalanceOfBatchLoop(bal, accounts, ids,
             [balances EXCEPT ![i] = balance_of_in(bal, accounts[i], ids[i])],
             i + 1)

\* fn balance_of_batch
balance_of_batch_in(bal, accounts, ids) ==
    LET len == Len(accounts)
    IN  IF len # Len(ids) THEN [panic |-> FALSE, value |-> None]
        ELSE BalanceOfBatchLoop(bal, accounts, ids, VecWithCapacity(len), 1)

\* the ensure! of set_approval_for_all
ApprovalOperatorAlwaysValid(owner, operator) == TRUE

ApprovalOperatorValid(owner, operator) == owner # operator

\* the ensure! of safe_transfer_from
TransferAuthorized(from, sender) == from # sender

\* the ensure! of safe_batch_transfer_from
BatchTransferAuthorized(appr, from, sender) ==
    from = sender \/ is_approved_for_all_in(appr, from, sender)

MintCheckSkipsExistence(owner, sender) ==
    IF owner = None THEN "Ok"
    ELSE IF ~(Unwrap(owner) = sender) THEN "InvalidOwner"
    ELSE "Ok"

MintCheckAnyCaller(owner, sender) ==
    IF ~(owner # None) THEN "CollectionDoesNotExist" ELSE "Ok"

\* the two ensure! of mint
MintCheck(owner, sender) ==
    IF ~(owner # None) THEN "CollectionDoesNotExist"
    ELSE IF ~(Unwrap(owner) = sender) THEN "InvalidOwner"
    ELSE "Ok"

CreateIdDefault(next) == 0

\* create: the id given to the new collection
CreateId(next) == next

CreateNextIdStuck(collection_id) == collection_id

\* create: the value NextCollectionId is set to
CreateNextId(collection_id) == Next_id(collection_id)

\* ----------------------------------------------------------------- actions
Idle == call = NoCall

\* A dispatchable that returns Err: the storage layer that #[pallet::call]
\* wraps around every call discards every write (and every event, events
\* being storage of frame_system) made before the error.
Fail(c, err) ==
    /\ call' = c
    /\ result' = err
    /\ pre' = Snapshot
    /\ events' = <<>>
    /\ UNCHANGED <<storage, returned, lastApproval, numCreated>>

CommitWithoutStorageLayer(c, u) ==
    /\ call' = c
    /\ result' = u.err
    /\ pre' = Snapshot
    /\ Balances' = u.bal
    /\ events' = u.events
    /\ UNCHANGED <<NextCollectionId, Collections, OperatorApprovals,
                   returned, lastApproval, numCreated>>

\* A dispatchable that ran `update`: commit on Ok, discard on Err.
Commit(c, u) ==
    IF u.err # "Ok" THEN Fail(c, u.err)
    ELSE /\ call' = c
         /\ result' = "Ok"
         /\ pre' = Snapshot
         /\ Balances' = u.bal
         /\ events' = u.events
         /\ UNCHANGED <<NextCollectionId, Collections, OperatorApprovals,
                      returned, lastApproval, numCreated>>

set_approval_for_all ==
    /\ Idle
    /\ \E origin \in Origin, operator \in AccountId, approved \in BOOLEAN :
        LET c == [name |-> "set_approval_for_all", origin |-> origin,
                  operator |-> operator, approved |-> approved]
            signer == ensure_signed(origin)
        IN  IF signer = None THEN Fail(c, "BadOrigin")
               ELSE LET owner == Unwrap(signer)
                    IN  IF ~ApprovalOperatorValid(owner, operator)
                        THEN Fail(c, "InvalidOperator")
                        ELSE /\ OperatorApprovals' =
                                    ApprovalInsert(OperatorApprovals, owner, operator,
                                                   approved)
                             /\ lastApproval' =
                                    [lastApproval EXCEPT
                                        ![owner] = [@ EXCEPT ![operator] = Some(approved)]]
                             /\ events' = <<[kind |-> "ApprovalForAll", account |-> owner,
                                             operator |-> operator, approved |-> approved]>>
                             /\ call' = c
                             /\ result' = "Ok"
                             /\ pre' = Snapshot
                             /\ UNCHANGED <<NextCollectionId, Collections, Balances,
                                            returned, numCreated>>

safe_transfer_from ==
    /\ Idle
    /\ \E origin \in Origin, from \in AccountId, to \in AccountId,
       id \in CollectionId, amount \in Amount :
        LET c == [name |-> "safe_transfer_from", origin |-> origin, from |-> from,
                  to |-> to, ids |-> <<id>>, amounts |-> <<amount>>]
            signer == ensure_signed(origin)
        IN  IF signer = None THEN Fail(c, "BadOrigin")
               ELSE LET sender == Unwrap(signer)
                    IN  IF ~TransferAuthorized(from, sender)
                        THEN Fail(c, "InsufficientApprovalForAll")
                        ELSE Commit(c, Update(Balances, sender, Some(from), Some(to),
                                              <<id>>, <<amount>>))

safe_batch_transfer_from ==
    /\ Idle
    /\ \E origin \in Origin, from \in AccountId, to \in AccountId,
       ids \in SeqsUpTo(CollectionId, MaxLen), amounts \in SeqsUpTo(Amount, MaxLen) :
        LET c == [name |-> "safe_batch_transfer_from", origin |-> origin, from |-> from,
                  to |-> to, ids |-> ids, amounts |-> amounts]
            signer == ensure_signed(origin)
        IN  IF signer = None THEN Fail(c, "BadOrigin")
               ELSE LET sender == Unwrap(signer)
                    IN  IF ~BatchTransferAuthorized(OperatorApprovals, from, sender)
                        THEN Fail(c, "InsufficientApprovalForAll")
                        ELSE Commit(c, Update(Balances, sender, Some(from), Some(to),
                                              ids, amounts))

mint ==
    /\ Idle
    /\ \E origin \in Origin, to \in AccountId, id \in CollectionId, amount \in Amount :
        LET c == [name |-> "mint", origin |-> origin, to |-> to,
                  ids |-> <<id>>, amounts |-> <<amount>>]
            signer == ensure_signed(origin)
            owner == Collections[id]
        IN  IF signer = None THEN Fail(c, "BadOrigin")
               ELSE LET sender == Unwrap(signer)
                    IN  IF MintCheck(owner, sender) # "Ok"
                        THEN Fail(c, MintCheck(owner, sender))
                        ELSE Commit(c, Update(Balances, sender, None, Some(to),
                                              <<id>>, <<amount>>))

mint_batch ==
    /\ Idle
    /\ \E origin \in Origin, to \in AccountId,
       ids \in SeqsUpTo(CollectionId, MaxLen), amounts \in SeqsUpTo(Amount, MaxLen) :
        LET c == [name |-> "mint_batch", origin |-> origin, to |-> to,
                  ids |-> ids, amounts |-> amounts]
            signer == ensure_signed(origin)
        IN  IF ~ensure_root(origin) THEN Fail(c, "BadOrigin")
               ELSE IF signer = None THEN Fail(c, "BadOrigin")
               ELSE Commit(c, Update(Balances, Unwrap(signer), None, Some(to),
                                     ids, amounts))

burn ==
    /\ Idle
    /\ \E origin \in Origin, id \in CollectionId, amount \in Amount :
        LET c == [name |-> "burn", origin |-> origin,
                  ids |-> <<id>>, amounts |-> <<amount>>]
            signer == ensure_signed(origin)
        IN  IF signer = None THEN Fail(c, "BadOrigin")
               ELSE LET sender == Unwrap(signer)
                    IN  Commit(c, Update(Balances, sender, Some(sender), None,
                                         <<id>>, <<amount>>))

burn_batch ==
    /\ Idle
    /\ \E origin \in Origin,
       ids \in SeqsUpTo(CollectionId, MaxLen), amounts \in SeqsUpTo(Amount, MaxLen) :
        LET c == [name |-> "burn_batch", origin |-> origin,
                  ids |-> ids, amounts |-> amounts]
            signer == ensure_signed(origin)
        IN  IF signer = None THEN Fail(c, "BadOrigin")
               ELSE LET sender == Unwrap(signer)
                    IN  Commit(c, Update(Balances, sender, Some(sender), None,
                                         ids, amounts))

create ==
    /\ Idle
    /\ \E origin \in Origin :
        LET c == [name |-> "create", origin |-> origin]
            signer == ensure_signed(origin)
            collection_id == CreateId(NextCollectionId)
        IN  /\ NextCollectionId < MaxCollections
            /\ IF signer = None THEN Fail(c, "BadOrigin")
               ELSE LET sender == Unwrap(signer)
                    IN  /\ Collections' =
                               [Collections EXCEPT ![collection_id] = Some(sender)]
                        /\ NextCollectionId' = CreateNextId(collection_id)
                        /\ events' = <<[kind |-> "CollectionCreated",
                                        id |-> collection_id, owner |-> sender]>>
                        /\ call' = c
                        /\ result' = "Ok"
                        /\ pre' = Snapshot
                        /\ numCreated' = numCreated + 1
                        /\ UNCHANGED <<Balances, OperatorApprovals, returned,
                                       lastApproval>>

\* A call of the query balance_of_batch: storage is only read.
balance_of_batch ==
    /\ Idle
    /\ \E accounts \in SeqsUpTo(AccountId, MaxLen), ids \in SeqsUpTo(CollectionId, MaxLen) :
        LET c == [name |-> "balance_of_batch", accounts |-> accounts, ids |-> ids]
            r == balance_of_batch_in(Balances, accounts, ids)
        IN  /\ call' = c
            /\ result' = IF r.panic THEN "Panic" ELSE "Returned"
            /\ returned' = r.value
            /\ pre' = Snapshot
            /\ events' = <<>>
            /\ UNCHANGED <<storage, lastApproval, numCreated>>

\* The extrinsic ran to completion; the host admits the next one.  Storage
\* is kept; the record of the finished call (call, result, pre, events) is
\* dropped.
NextExtrinsic ==
    /\ ~Idle
    /\ call' = NoCall
    /\ result' = "None"
    /\ pre' = NoPre
    /\ events' = <<>>
    /\ returned' = None
    /\ UNCHANGED <<storage, lastApproval, numCreated>>

Next ==
    \/ set_approval_for_all
    \/ safe_transfer_from
    \/ safe_batch_transfer_from
    \/ mint
    \/ mint_batch
    \/ burn
    \/ burn_batch
    \/ create
    \/ balance_of_batch
    \/ NextExtrinsic

Spec == Init /\ [][Next]_vars
\* ------------------------------------------------------- claim vocabulary
Done == call # NoCall
Ok == result = "Ok"
IsSigned(origin) == origin[1] = "Signed"
Caller == call.origin[2]
StorageUnchanged ==
    /\ NextCollectionId = pre.NextCollectionId
    /\ Collections = pre.Collections
    /\ Balances = pre.Balances
    /\ OperatorApprovals = pre.OperatorApprovals

RECURSIVE SumBalances(_, _, _)
SumBalances(bal, id, n) ==
    IF n = 0 THEN 0 ELSE balance_of_in(bal, n, id) + SumBalances(bal, id, n - 1)
TotalSupply(bal, id) == SumBalances(bal, id, NumAccounts)

TransferCalls == {"safe_transfer_from", "safe_batch_transfer_from"}

\* C1: every successful transfer (safe_transfer_from or
\* safe_batch_transfer_from) leaves the sum of all accounts' balances of every
\* collection unchanged.
C1_TransferConservesSupply ==
    (Done /\ call.name \in TransferCalls /\ Ok) =>
        \A id \in CollectionId :
            TotalSupply(Balances, id) = TotalSupply(pre.Balances, id)

\* C2: a transfer call that succeeds was made by `from` itself or by an
\* operator approved by `from`; any other caller fails with
\* InsufficientApprovalForAll and no balance moves.
C2_NoUnauthorizedDebit ==
    (Done /\ call.name \in TransferCalls /\ IsSigned(call.origin)) =>
        LET authorized ==
                \/ Caller = call.from
                \/ is_approved_for_all_in(pre.OperatorApprovals, call.from, Caller)
        IN  /\ Ok => authorized
            /\ ~authorized =>
                   /\ result = "InsufficientApprovalForAll"
                   /\ Balances = pre.Balances

\* C3: safe_transfer_from by a signed caller equal to `from`, whose stored
\* balance of `id` is at least `amount`, succeeds (it does not fail with
\* InsufficientApprovalForAll).
C3_OwnTransferSucceeds ==
    (/\ Done
     /\ call.name = "safe_transfer_from"
     /\ IsSigned(call.origin)
     /\ Caller = call.from
     /\ pre.Balances[call.ids[1]][call.from] # None
     /\ Unwrap(pre.Balances[call.ids[1]][call.from]) >= call.amounts[1])
        => Ok

C5_MintSetsBalance ==
    (Done /\ call.name = "mint" /\ Ok) =>
        LET id == call.ids[1]
            X == call.amounts[1]
        IN  /\ balance_of(call.to, id) = X
            /\ Balances[id][call.to] = Some(X)
            /\ \A c \in CollectionId, a \in AccountId :
                   (c # id \/ a # call.to) => Balances[c][a] = pre.Balances[c][a]
            /\ events = <<[kind |-> "TransferSingle", operator |-> Caller,
                           from |-> None, to |-> Some(call.to),
                           id |-> id, value |-> X]>>

C5_Witness ==
    /\ Done
    /\ call.name = "mint"
    /\ Ok
    /\ pre.Balances[call.ids[1]][call.to] = Some(1)
    /\ call.amounts[1] = 1
    /\ balance_of(call.to, call.ids[1]) = 1

RECURSIVE NextSteps(_)
NextSteps(k) == IF k = 0 THEN 0 ELSE Next_id(NextSteps(k - 1))

\* C6: the k-th successful create (k = 0, 1, ...) assigns the id reached by k
\* `next` steps from the default id, an id that was unused and is larger
\* than every id in use, records the caller as its owner, advances
\* NextCollectionId by one step and publishes CollectionCreated{id, owner};
\* no other call and no failed call changes NextCollectionId; create by a
\* signed caller never fails.
C6_CreateAssignsFreshIds ==
    /\ (Done /\ call.name = "create" /\ IsSigned(call.origin)) => Ok
    /\ (Done /\ call.name = "create" /\ Ok) =>
           LET id == NextSteps(numCreated - 1)
           IN  /\ pre.NextCollectionId = id
               /\ pre.Collections[id] = None
               /\ \A other \in CollectionId :
                      pre.Collections[other] # None => other < id
               /\ Collections = [pre.Collections EXCEPT ![id] = Some(Caller)]
               /\ NextCollectionId = Next_id(id)
               /\ events = <<[kind |-> "CollectionCreated", id |-> id,
                              owner |-> Caller]>>
    /\ (Done /\ ~(call.name = "create" /\ Ok)) =>
           NextCollectionId = pre.NextCollectionId

C6_Witness ==
    /\ Done
    /\ call.name = "create"
    /\ Ok
    /\ numCreated = 2
    /\ Collections[1] = Some(Caller)
    /\ Collections[0] # Some(Caller)

\* C7: once an id is mapped to an owner in Collections it stays mapped to the
\* same owner in every later state.
C7_OwnershipImmutable ==
    [][\A id \in CollectionId :
          Collections[id] # None => Collections'[id] = Collections[id]]_vars

C7_Witness ==
    /\ Done
    /\ call.name = "create"
    /\ Ok
    /\ pre.Collections[0] # None
    /\ pre.Collections[0] # Some(Caller)
    /\ Collections[0] = pre.Collections[0]

\* C8: set_approval_for_all with operator equal to the caller fails with
\* InvalidOperator for either value of `approved`, leaves the approvals
\* unchanged and publishes no event; is_approved_for_all(a, a) is false for
\* every account a in every reachable state.
C8_NoSelfApproval ==
    /\ (/\ Done
        /\ call.name = "set_approval_for_all"
        /\ IsSigned(call.origin)
        /\ call.operator = Caller) =>
           /\ result = "InvalidOperator"
           /\ OperatorApprovals = pre.OperatorApprovals
           /\ events = <<>>
    /\ \A a \in AccountId : ~is_approved_for_all(a, a)

C8_Witness ==
    /\ Done
    /\ call.name = "set_approval_for_all"
    /\ IsSigned(call.origin)
    /\ call.operator = Caller
    /\ call.approved
    /\ result = "InvalidOperator"

Distinct(seq) == \A i, j \in 1..Len(seq) : i # j => seq[i] # seq[j]

\* C9: for caller # from, safe_batch_transfer_from fails with
\* InsufficientApprovalForAll exactly when the most recent successful
\* set_approval_for_all(caller, _) made by `from` did not have approved = true
\* (none was made, or the last one had approved = false); when the last one
\* had approved = true, a call with equal-length arrays of distinct ids whose
\* stored balances cover the amounts succeeds.
C9_ApprovalDecidesBatchTransfer ==
    (/\ Done
     /\ call.name = "safe_batch_transfer_from"
     /\ IsSigned(call.origin)
     /\ Caller # call.from) =>
        LET approved == lastApproval[call.from][Caller] = Some(TRUE)
            covered ==
                /\ Len(call.ids) = Len(call.amounts)
                /\ Distinct(call.ids)
                /\ \A i \in 1..Len(call.ids) :
                       /\ pre.Balances[call.ids[i]][call.from] # None
                       /\ Unwrap(pre.Balances[call.ids[i]][call.from]) >= call.amounts[i]
        IN  /\ (result = "InsufficientApprovalForAll") <=> ~approved
            /\ (approved /\ covered) => Ok

C9_Witness ==
    /\ Done
    /\ call.name = "safe_batch_transfer_from"
    /\ IsSigned(call.origin)
    /\ Caller # call.from
    /\ lastApproval[call.from][Caller] = Some(TRUE)
    /\ Len(call.ids) = 2
    /\ call.amounts = <<1, 1>>
    /\ Ok

\* C10 as claimed: burn(id, X) by A succeeds when X <= balance_of(A, id),
\* lowering A's balance by exactly X and no other balance; when
\* X > balance_of(A, id), also when A never held any of id, it fails with
\* InsufficientBalance and no balance changes.
C10_BurnByBalanceOf ==
    (Done /\ call.name = "burn" /\ IsSigned(call.origin)) =>
        LET id == call.ids[1]
            X == call.amounts[1]
            held == balance_of_in(pre.Balances, Caller, id)
        IN  IF X <= held
            THEN /\ Ok
                 /\ balance_of(Caller, id) = held - X
                 /\ \A c \in CollectionId, a \in AccountId :
                        (c # id \/ a # Caller) => Balances[c][a] = pre.Balances[c][a]
            ELSE /\ result = "InsufficientBalance"
                 /\ Balances = pre.Balances

\* C10 amended: when A has a stored balance entry b for id, burn(id, X)
\* succeeds for X <= b, lowering the entry by exactly X and no other balance,
\* and fails with InsufficientBalance for X > b; when A has no stored entry
\* for id it fails with CollectionDoesNotExist for every X; a failed burn
\* changes no balance.
C10_BurnByStoredEntry ==
    (Done /\ call.name = "burn" /\ IsSigned(call.origin)) =>
        LET id == call.ids[1]
            X == call.amounts[1]
            entry == pre.Balances[id][Caller]
        IN  IF entry = None
            THEN /\ result = "CollectionDoesNotExist"
                 /\ Balances = pre.Balances
            ELSE IF X <= Unwrap(entry)
            THEN /\ Ok
                 /\ Balances[id][Caller] = Some(Unwrap(entry) - X)
                 /\ \A c \in CollectionId, a \in AccountId :
                        (c # id \/ a # Caller) => Balances[c][a] = pre.Balances[c][a]
            ELSE /\ result = "InsufficientBalance"
                 /\ Balances = pre.Balances

C10_Witness ==
    /\ Done
    /\ call.name = "burn"
    /\ Ok
    /\ call.amounts[1] = 1
    /\ pre.Balances[call.ids[1]][Caller] = Some(1)
    /\ Balances[call.ids[1]][Caller] = Some(0)

BatchCalls == {"safe_batch_transfer_from", "burn_batch", "mint_batch"}
UpdateCalls == {"safe_transfer_from", "safe_batch_transfer_from", "mint",
                "mint_batch", "burn", "burn_batch"}

\* the `from` and `to` the recorded call hands to update
CallFrom ==
    IF call.name \in TransferCalls THEN Some(call.from)
    ELSE IF call.name \in {"burn", "burn_batch"} THEN Some(Caller)
    ELSE None
CallTo ==
    IF call.name \in {"burn", "burn_batch"} THEN None ELSE Some(call.to)

\* C11: a batch operation (safe_batch_transfer_from, burn_batch, mint_batch)
\* called with ids and amounts of different lengths by a caller that passes
\* authorization (from or an approved operator; any signed caller for
\* burn_batch; root for mint_batch) fails with InvalidArrayLength, changes no
\* balance and publishes no event.
C11_LengthMismatchRejected ==
    (/\ Done
     /\ call.name \in BatchCalls
     /\ Len(call.ids) # Len(call.amounts)
     /\ CASE call.name = "safe_batch_transfer_from" ->
                /\ IsSigned(call.origin)
                /\ \/ Caller = call.from
                   \/ is_approved_for_all_in(pre.OperatorApprovals, call.from, Caller)
          [] call.name = "burn_batch" -> IsSigned(call.origin)
          [] call.name = "mint_batch" -> call.origin = Root) =>
        /\ result = "InvalidArrayLength"
        /\ Balances = pre.Balances
        /\ events = <<>>

\* C12: every successful mint, burn or transfer publishes exactly one event:
\* TransferSingle carrying ids[0] and amounts[0] when there is exactly one
\* id, TransferBatch carrying the whole sequences otherwise; with zero ids
\* (burn_batch([], [])) the call succeeds, changes no balance and publishes
\* TransferBatch with empty sequences.
C12_EventShape ==
    /\ (Done /\ call.name \in UpdateCalls /\ Ok) =>
           /\ events =
                  << IF Len(call.ids) = 1
                     THEN [kind |-> "TransferSingle", operator |-> Caller,
                           from |-> CallFrom, to |-> CallTo,
                           id |-> call.ids[1], value |-> call.amounts[1]]
                     ELSE [kind |-> "TransferBatch", operator |-> Caller,
                           from |-> CallFrom, to |-> CallTo,
                           ids |-> call.ids, values |-> call.amounts] >>
           /\ Len(call.ids) = 0 => Balances = pre.Balances
    /\ (/\ Done
        /\ call.name = "burn_batch"
        /\ IsSigned(call.origin)
        /\ call.ids = <<>>
        /\ call.amounts = <<>>) => Ok

C12_Witness ==
    /\ Done
    /\ call.name = "burn_batch"
    /\ Ok
    /\ call.ids = <<>>
    /\ events = <<[kind |-> "TransferBatch", operator |-> Caller,
                   from |-> Some(Caller), to |-> None,
                   ids |-> <<>>, values |-> <<>>]>>

\* the balances `update` had written when it stopped
WrittenByUpdate ==
    UpdateLoop(pre.Balances, CallFrom, CallTo, call.ids, call.amounts, 1).bal

C14_RootMintsBatch ==
    (Done /\ call.name = "mint_batch") =>
        /\ (call.origin = Root /\ Len(call.ids) = Len(call.amounts)) =>
               /\ Ok
               /\ \A i \in 1..Len(call.ids) :
                      (\A j \in (i + 1)..Len(call.ids) : call.ids[j] # call.ids[i])
                          => balance_of(call.to, call.ids[i]) = call.amounts[i]
        /\ call.origin # Root =>
               /\ ~Ok
               /\ Balances = pre.Balances

\* C15: balance_of_batch returns None when the two sequences have different
\* lengths, and for equal lengths n >= 0 returns the n balances
\* balance_of(accounts[i], ids[i]); it never aborts and never changes state.
C15_BalanceOfBatch ==
    (Done /\ call.name = "balance_of_batch") =>
        /\ result = "Returned"
        /\ StorageUnchanged
        /\ returned =
               IF Len(call.accounts) # Len(call.ids) THEN None
               ELSE Some([i \in 1..Len(call.ids) |->
                             balance_of(call.accounts[i], call.ids[i])])

\* the recorded call reached the loop of update with a single index that
\* debits CallFrom: a burn, or a transfer that passed the check of its caller
SingleDebitReached ==
    /\ Done
    /\ call.name \in {"burn", "burn_batch", "safe_transfer_from",
                      "safe_batch_transfer_from"}
    /\ IsSigned(call.origin)
    /\ Len(call.ids) = 1
    /\ Len(call.amounts) = 1
    /\ call.name = "safe_transfer_from" => Caller # call.from
    /\ call.name = "safe_batch_transfer_from" =>
           \/ Caller = call.from
           \/ is_approved_for_all_in(pre.OperatorApprovals, call.from, Caller)

\* C16: a missing balance entry reads as zero; a burn or transfer whose debit
\* finds no stored entry fails with CollectionDoesNotExist, also for amount 0
\* and also when the collection exists; a stored entry is never removed, and
\* against a stored entry of 0 a debit of 0 succeeds and a positive debit
\* fails with InsufficientBalance.
C16_MissingEntryNotDebitable ==
    /\ \A c \in CollectionId, a \in AccountId :
           Balances[c][a] = None => balance_of(a, c) = 0
    /\ Done => \A c \in CollectionId, a \in AccountId :
           pre.Balances[c][a] # None => Balances[c][a] # None
    /\ SingleDebitReached =>
           LET entry == pre.Balances[call.ids[1]][Unwrap(CallFrom)]
           IN  /\ entry = None => result = "CollectionDoesNotExist"
               /\ (entry = Some(0) /\ call.amounts[1] = 0) => Ok
               /\ (entry = Some(0) /\ call.amounts[1] > 0) =>
                      result = "InsufficientBalance"

C16_Witness ==
    /\ SingleDebitReached
    /\ call.name = "burn"
    /\ call.amounts[1] = 0
    /\ pre.Collections[call.ids[1]] # None
    /\ pre.Balances[call.ids[1]][Caller] = None
    /\ result = "CollectionDoesNotExist"

\* the sum of amounts[j] over the indices j <= i whose id is c
RECURSIVE SumAt(_, _, _, _)
SumAt(ids, amounts, c, i) ==
    IF i = 0 THEN 0
    ELSE (IF ids[i] = c THEN amounts[i] ELSE 0) + SumAt(ids, amounts, c, i - 1)

\* index i of the recorded call finds a stored entry that covers the amounts
\* of its collection up to and including i
CoveredAt(i) ==
    LET entry == pre.Balances[call.ids[i]][Unwrap(CallFrom)]
    IN  /\ entry # None
        /\ SumAt(call.ids, call.amounts, call.ids[i], i) <= Unwrap(entry)

\* what C17 says of a call that reached the loop with equal-length arrays
RunningBalanceRule ==
    LET n == Len(call.ids)
        sender == Unwrap(CallFrom)
        bad == {i \in 1..n : ~CoveredAt(i)}
    IN  /\ Ok <=> bad = {}
        /\ Ok => \A c \in CollectionId :
               Balances[c][sender] =
                   IF pre.Balances[c][sender] = None THEN None
                   ELSE Some(Unwrap(pre.Balances[c][sender])
                                - SumAt(call.ids, call.amounts, c, n))
        /\ bad # {} =>
               LET k == CHOOSE i \in bad : \A j \in bad : i <= j
               IN  result = IF pre.Balances[call.ids[k]][sender] = None
                            THEN "CollectionDoesNotExist"
                            ELSE "InsufficientBalance"

BatchDebitReached ==
    /\ Done
    /\ call.name \in {"burn_batch", "safe_batch_transfer_from"}
    /\ IsSigned(call.origin)
    /\ Len(call.ids) = Len(call.amounts)
    /\ call.name = "safe_batch_transfer_from" =>
           \/ Caller = call.from
           \/ is_approved_for_all_in(pre.OperatorApprovals, call.from, Caller)

\* C17 as claimed: a burn_batch or safe_batch_transfer_from succeeds only if,
\* at every index, the sender's balance covers the amounts given for that
\* collection so far, leaves the sender's balance of each collection reduced
\* by the sum of its amounts, and otherwise fails at the first index that is
\* not covered.
C17_RunningBalance ==
    BatchDebitReached => RunningBalanceRule

\* C17 amended: the same, for burn_batch and for safe_batch_transfer_from
\* with to # from.
C17_RunningBalanceOtherRecipient ==
    (/\ BatchDebitReached
     /\ call.name = "safe_batch_transfer_from" => call.to # call.from)
        => RunningBalanceRule

C17_Witness ==
    /\ BatchDebitReached
    /\ call.name = "burn_batch"
    /\ Len(call.ids) = 2
    /\ call.ids[1] = call.ids[2]
    /\ call.amounts = <<1, 1>>
    /\ pre.Balances[call.ids[1]][Caller] = Some(1)
    /\ result = "InsufficientBalance"

\* C18: a successful set_approval_for_all(operator, approved) by owner sets
\* the approval entry (owner, operator) and leaves every balance, every
\* collection, NextCollectionId and every other approval pair, the reverse
\* pair included, unchanged; a successful create leaves every balance and
\* every approval unchanged; balances change only in a successful mint, burn
\* or transfer.
C18_Frame ==
    /\ (Done /\ call.name = "set_approval_for_all" /\ Ok) =>
           /\ Balances = pre.Balances
           /\ Collections = pre.Collections
           /\ NextCollectionId = pre.NextCollectionId
           /\ OperatorApprovals[Caller][call.operator] = Some(call.approved)
           /\ \A a, b \in AccountId :
                  (a # Caller \/ b # call.operator) =>
                      OperatorApprovals[a][b] = pre.OperatorApprovals[a][b]
    /\ (Done /\ call.name = "create" /\ Ok) =>
           /\ Balances = pre.Balances
           /\ OperatorApprovals = pre.OperatorApprovals
    /\ (Done /\ Balances # pre.Balances) =>
           /\ call.name \in UpdateCalls
           /\ Ok

C18_Witness ==
    /\ Done
    /\ call.name = "set_approval_for_all"
    /\ Ok
    /\ call.approved
    /\ pre.OperatorApprovals[call.operator][Caller] = Some(FALSE)
    /\ OperatorApprovals[call.operator][Caller] = Some(FALSE)
    /\ OperatorApprovals[Caller][call.operator] = Some(TRUE)

\* C19: every (collection, account) key with a stored balance entry belongs
\* to a collection that exists in Collections.
C19_BalancesOnlyOfCollections ==
    \A c \in CollectionId, a \in AccountId :
        Balances[c][a] # None => Collections[c] # None

C19_Witness ==
    /\ Done
    /\ call.name = "mint"
    /\ result = "CollectionDoesNotExist"
    /\ Collections[call.ids[1]] = None
    /\ \E c \in CollectionId, a \in AccountId : Balances[c][a] # None

\* C20: a successful safe_transfer_from, safe_batch_transfer_from, burn or
\* burn_batch never raises the total of a collection's balances; a call that
\* raises the total of a collection is a successful mint of that collection
\* by its owner.
C20_SupplyOnlyGrowsByMint ==
    /\ (/\ Done
        /\ call.name \in TransferCalls \cup {"burn", "burn_batch"}
        /\ Ok) =>
           \A id \in CollectionId :
               TotalSupply(Balances, id) <= TotalSupply(pre.Balances, id)
    /\ Done => \A id \in CollectionId :
           TotalSupply(Balances, id) > TotalSupply(pre.Balances, id) =>
               /\ call.name = "mint"
               /\ Ok
               /\ call.ids[1] = id
               /\ pre.Collections[id] = Some(Caller)

C20_Witness ==
    /\ Done
    /\ call.name \in TransferCalls
    /\ Ok
    /\ call.to # call.from
    /\ Len(call.ids) >= 1
    /\ pre.Balances[call.ids[1]][call.to] = Some(1)
    /\ TotalSupply(Balances, call.ids[1]) < TotalSupply(pre.Balances, call.ids[1])
====
